---- MODULE Spec2Model ----
(***************************************************************************)
(* Model of firmware_tools/vxhunter_r2_py3.py: the VxTarget analysis       *)
(* object (symbol table location, endianness probe, string pool discovery, *)
(* load address recovery, symbol reification).                             *)
(*                                                                         *)
(* Offsets are 0-based as in the source; the image is a TLA+ sequence, so  *)
(* byte `off` of the image is fw[off + 1].  Python's None is the empty     *)
(* tuple None and a present value v is Some(v) = <<v>>.                    *)
(*                                                                         *)
(* Addresses are Python integers that reach 2^32 - 1, beyond the integers  *)
(* of the model checker; an address (or a difference of addresses) a is    *)
(* the pair <<a div 65536, a mod 65536>>, see "Wide integers".             *)
(***************************************************************************)
EXTENDS Integers, Sequences, FiniteSets, TLC

None == <<>>
Some(v) == <<v>>
Val(o) == o[1]

\* the sequence with the elements of the function f on 1..n, in normal form
AsSeq(f) == f \o <<>>

\* the element of a one-element set
Only(S) == CHOOSE x \in S : TRUE

\* Step applied k times to s: the state of a loop after k iterations, where
\* Step leaves the state of a finished loop as it is
RECURSIVE Iterate(_, _, _)
Iterate(Step(_), s, k) ==
    IF k <= 0 THEN s
    ELSE IF k = 1 THEN Step(s)
    ELSE Only({Iterate(Step, m, k - (k \div 2)) : m \in {Iterate(Step, s, k \div 2)}})

Min(S) == CHOOSE x \in S : \A y \in S : x <= y
Max(S) == CHOOSE x \in S : \A y \in S : x >= y

(***************************************************************************)
(* Wide integers: <<hi, lo>> stands for hi * 65536 + lo, 0 <= lo < 65536.  *)
(***************************************************************************)
WInt(i) == <<i \div 65536, i % 65536>>
WSub(a, b) ==
    IF a[2] - b[2] < 0 THEN <<a[1] - b[1] - 1, a[2] - b[2] + 65536>>
    ELSE <<a[1] - b[1], a[2] - b[2]>>
WAddInt(a, i) == WSub(a, WInt(0 - i))
WLt(a, b) == a[1] < b[1] \/ (a[1] = b[1] /\ a[2] < b[2])
\* the plain integer of a wide integer known to lie in lo..hi
WIn(a, lo, hi) == ~WLt(a, WInt(lo)) /\ ~WLt(WInt(hi), a)
WVal(a) == a[1] * 65536 + a[2]

(***************************************************************************)
(* Module-level constants of the source.                                   *)
(***************************************************************************)
default_check_count == 100

\* 0x80002000, 0x10000, 0x1000, 0xf2003fe4, 0x100000, 0x107fe0
known_address ==
    << <<32768, 8192>>, <<1, 0>>, <<0, 4096>>, <<61952, 16356>>, <<16, 0>>, <<16, 32736>> >>

\* b'bzero', b'usrInit', b'bfill'
function_name_key_words ==
    << <<98, 122, 101, 114, 111>>,
       <<117, 115, 114, 73, 110, 105, 116>>,
       <<98, 102, 105, 108, 108>> >>

vx_5_sym_types == {3, 4, 5, 6, 7, 8, 9, 18, 19, 64, 65, 128, 129}

vx_6_sym_types == {3, 4, 5, 8, 9, 16, 17, 32, 33, 64, 65}

\* bad_str of _is_func_name:  \ % + , & / ) ( [ ]
bad_str == {92, 37, 43, 44, 38, 47, 41, 40, 91, 93}

\* longest byte run _is_func_name accepts
max_func_name_length == 512

\* range(9) of the two column loops of _check_symbol_format
endian_check_rounds == 9

\* fault_count < 10 of _check_fix
max_fault_count == 10

\* "strings interval should less than 4": the growth loops test 4 < gap
max_string_interval == 4

(***************************************************************************)
(* Byte access.  At(fw, off) is self._firmware[off] for 0 <= off < len;    *)
(* Slice(fw, a, b) is self._firmware[a:b] for 0 <= a (Python clips b).     *)
(***************************************************************************)
At(fw, off) == fw[off + 1]

Slice(fw, a, b) ==
    LET e == IF b > Len(fw) THEN Len(fw) ELSE b
    IN  IF a >= e THEN <<>> ELSE AsSeq([i \in 1..(e - a) |-> fw[a + i]])

symbol_interval(ver) == IF ver = 5 THEN 16 ELSE 20

\* struct.unpack('>I' / '<I') of the four bytes at off
Unpack32(fw, off, big) ==
    IF big
    THEN <<At(fw, off) * 256 + At(fw, off + 1), At(fw, off + 2) * 256 + At(fw, off + 3)>>
    ELSE <<At(fw, off + 3) * 256 + At(fw, off + 2), At(fw, off + 1) * 256 + At(fw, off)>>

\* faulty variant of check_symbol_format_simple: the zero test of the value
\* pointer, commented out for version 6 in the source, is applied to both
check_symbol_format_simple_value_required(fw, ver, off) ==
    IF ver = 5
    THEN /\ At(fw, off + 14) \in vx_5_sym_types
         /\ At(fw, off + 15) = 0
         /\ At(fw, off + 12) = 0 /\ At(fw, off + 13) = 0
         /\ ~(\A k \in 4..7 : At(fw, off + k) = 0)
         /\ ~(\A k \in 8..11 : At(fw, off + k) = 0)
    ELSE IF ver = 6
    THEN /\ At(fw, off + 18) \in vx_6_sym_types
         /\ At(fw, off + 19) = 0
         /\ At(fw, off + 16) = 0 /\ At(fw, off + 17) = 0
         /\ ~(\A k \in 4..7 : At(fw, off + k) = 0)
         /\ ~(\A k \in 8..11 : At(fw, off + k) = 0)
    ELSE FALSE

\* faulty variant of check_symbol_format_simple: the type byte is not looked at
check_symbol_format_simple_any_type(fw, ver, off) ==
    IF ver = 5
    THEN /\ At(fw, off + 15) = 0
         /\ At(fw, off + 12) = 0 /\ At(fw, off + 13) = 0
         /\ ~(\A k \in 4..7 : At(fw, off + k) = 0)
         /\ ~(\A k \in 8..11 : At(fw, off + k) = 0)
    ELSE IF ver = 6
    THEN /\ At(fw, off + 19) = 0
         /\ At(fw, off + 16) = 0 /\ At(fw, off + 17) = 0
         /\ ~(\A k \in 4..7 : At(fw, off + k) = 0)
    ELSE FALSE

(***************************************************************************)
(* _check_symbol_format_simple on data = fw[off : off + W]; every caller   *)
(* passes a full-width slice.                                              *)
(***************************************************************************)
check_symbol_format_simple(fw, ver, off) ==
    IF ver = 5
    THEN /\ At(fw, off + 14) \in vx_5_sym_types
         /\ At(fw, off + 15) = 0
         /\ At(fw, off + 12) = 0 /\ At(fw, off + 13) = 0
         /\ ~(\A k \in 4..7 : At(fw, off + k) = 0)
         /\ ~(\A k \in 8..11 : At(fw, off + k) = 0)
    ELSE IF ver = 6
    THEN /\ At(fw, off + 18) \in vx_6_sym_types
         /\ At(fw, off + 19) = 0
         /\ At(fw, off + 16) = 0 /\ At(fw, off + 17) = 0
         /\ ~(\A k \in 4..7 : At(fw, off + k) = 0)
    ELSE FALSE

\* one column loop of _check_symbol_format: the two bytes at record-relative
\* col of records i and i + 1 agree for every i in range(9)
column_same(fw, ver, offset, col) ==
    \A i \in 0..(endian_check_rounds - 1) :
        LET W == symbol_interval(ver)
        IN  /\ At(fw, offset + col + i * W) = At(fw, offset + col + (i + 1) * W)
            /\ At(fw, offset + col + 1 + i * W) = At(fw, offset + col + 1 + (i + 1) * W)

check_symbol_format(fw, ver, offset) ==
    LET W == symbol_interval(ver)
        end_offset == offset + W * default_check_count
    IN  IF end_offset > Len(fw) THEN FALSE
        ELSE IF \E i \in 0..(default_check_count - 1) :
                    ~check_symbol_format_simple(fw, ver, offset + i * W)
        THEN FALSE
        ELSE IF ver = 5
        THEN LET is_big_endian == column_same(fw, ver, offset, 4)
                 is_little_endian == column_same(fw, ver, offset, 6)
             IN  IF is_big_endian /\ is_little_endian THEN FALSE
                 ELSE is_big_endian # is_little_endian
        ELSE TRUE

(***************************************************************************)
(* find_symbol_table, in two parts: the start scan and the end scan.       *)
(***************************************************************************)
\* the offsets the start scan visits: range(len(fw) - W)
start_scan_offsets(fw, ver) == 0..(Len(fw) - symbol_interval(ver) - 1)

\* first offset of the start scan that passes the simple check and the
\* window check, None when the scan runs out
find_symbol_table_start(fw, ver) ==
    LET hits == {o \in start_scan_offsets(fw, ver) :
                    check_symbol_format_simple(fw, ver, o) /\ check_symbol_format(fw, ver, o)}
    IN  IF hits = {} THEN None ELSE Some(Min(hits))

\* faulty variant of find_symbol_table_end: symbol_table_end is moved before
\* the record is checked, so the record that ends the run is counted in
find_symbol_table_end_inclusive(fw, ver, start, old_end) ==
    LET W == symbol_interval(ver)
        K == (Len(fw) - start) \div W
        bad == {k \in 0..(K - 1) : ~check_symbol_format_simple(fw, ver, start + k * W)}
        cnt == IF bad = {} THEN K ELSE Min(bad) + 1
    IN  IF cnt = 0 THEN old_end ELSE Some(start + cnt * W)

\* end scan from a truthy start: symbol_table_end follows the last record of
\* the run of valid complete records; it keeps its old value when the run is
\* empty
find_symbol_table_end(fw, ver, start, old_end) ==
    LET W == symbol_interval(ver)
        K == (Len(fw) - start) \div W
        bad == {k \in 0..(K - 1) : ~check_symbol_format_simple(fw, ver, start + k * W)}
        cnt == IF bad = {} THEN K ELSE Min(bad)
    IN  IF cnt = 0 THEN old_end ELSE Some(start + cnt * W)

\* Python truthiness of an offset field: neither None nor 0
Truthy(o) == o # None /\ Val(o) # 0

\* Python truthiness of self.load_address
TruthyAddress(a) == a # None /\ Val(a) # WInt(0)

\* the rest of find_symbol_table once the start scan has produced found
\* (None when the scan ran out or did not run)
find_symbol_table_after(fw, ver, found, old_start, old_end, old_has, old_info_has) ==
    [symbol_table_start |-> IF old_start = None THEN found ELSE old_start,
     symbol_table_end   |-> IF Truthy(IF old_start = None THEN found ELSE old_start)
                            THEN find_symbol_table_end(
                                     fw, ver, Val(IF old_start = None THEN found ELSE old_start),
                                     old_end)
                            ELSE old_end,
     has_symbol         |-> IF ~Truthy(IF old_start = None THEN found ELSE old_start)
                            THEN Some(FALSE)
                            ELSE IF found # None THEN Some(TRUE) ELSE old_has,
     info_has_symbol    |-> IF found # None THEN TRUE ELSE old_info_has]

\* find_symbol_table on an object whose symbol_table_start, symbol_table_end,
\* _has_symbol and _firmware_info["has_symbol"] are the old_ arguments
find_symbol_table(fw, ver, old_start, old_end, old_has, old_info_has) ==
    find_symbol_table_after(fw, ver,
        IF old_start = None THEN find_symbol_table_start(fw, ver) ELSE None,
        old_start, old_end, old_has, old_info_has)

(***************************************************************************)
(* _check_vxworks_endian: compares the name pointers of the first two      *)
(* records; big endian when the first two bytes agree.                     *)
(***************************************************************************)
check_vxworks_endian(fw, ver, start) ==
    LET W == symbol_interval(ver)
        data1 == Slice(fw, start + 4, start + 4 + W)
        data2 == Slice(fw, start + 4 + W, start + 4 + W * 2)
    IN  IF Slice(data1, 0, 2) = Slice(data2, 0, 2) THEN TRUE
        ELSE IF Slice(data1, 2, 4) = Slice(data2, 2, 4) THEN FALSE
        ELSE FALSE

(***************************************************************************)
(* get_symbol_table: parse the records of [start, end) in image order,     *)
(* sort by symbol_name_addr (sorted() is stable), then fill in             *)
(* symbol_name_length of every entry but the last.                         *)
(***************************************************************************)
parse_symbols(fw, ver, start, end, big) ==
    LET W == symbol_interval(ver)
        n == IF end > start THEN (end - start + W - 1) \div W ELSE 0
    IN  AsSeq([k \in 1..n |->
            LET i == start + (k - 1) * W
            IN  [symbol_name_addr   |-> Unpack32(fw, i + 4, big),
                 symbol_name_length |-> None,
                 symbol_dest_addr   |-> Unpack32(fw, i + 8, big),
                 symbol_flag        |-> At(fw, i + W - 2),
                 offset             |-> i]])

\* position of each entry after a stable sort by symbol_name_addr
SortRank(table) ==
    AsSeq([k \in 1..Len(table) |->
        1 + Cardinality({j \in 1..Len(table) :
            \/ WLt(table[j].symbol_name_addr, table[k].symbol_name_addr)
            \/ /\ table[j].symbol_name_addr = table[k].symbol_name_addr
               /\ j < k})])

\* the entry that lands at each position
SortOrder(rank) == AsSeq([r \in 1..Len(rank) |-> CHOOSE k \in 1..Len(rank) : rank[k] = r])

Permute(table, order) == AsSeq([r \in 1..Len(table) |-> table[order[r]]])

\* faulty variant of sorted_by_name_addr: the list is left in record order
unsorted_by_name_addr(table) == table

\* sorted(table, key = symbol_name_addr)
sorted_by_name_addr(table) == Permute(table, SortOrder(SortRank(table)))

\* faulty variant of fill_name_length: the distance to the previous entry,
\* none for the first
fill_name_length_from_previous(table) ==
    AsSeq([i \in 1..Len(table) |->
        IF i > 1
        THEN [table[i] EXCEPT !.symbol_name_length =
                 Some(WSub(table[i].symbol_name_addr, table[i - 1].symbol_name_addr))]
        ELSE table[i]])

\* the loop of get_symbol_table that sets symbol_name_length of every entry
\* but the last to the distance to the next name pointer
fill_name_length(table) ==
    AsSeq([i \in 1..Len(table) |->
        IF i < Len(table)
        THEN [table[i] EXCEPT !.symbol_name_length =
                 Some(WSub(table[i + 1].symbol_name_addr, table[i].symbol_name_addr))]
        ELSE table[i]])

\* the fields get_symbol_table leaves behind
get_symbol_table_with(fw, ver, start, end, big, old_table) ==
    [is_big_endian |-> big,
     symbol_table  |-> fill_name_length(sorted_by_name_addr(
                           old_table \o parse_symbols(fw, ver, start, end, big)))]

get_symbol_table(fw, ver, start, end, old_big, old_table) ==
    IF Truthy(start) /\ Truthy(end)
    THEN get_symbol_table_with(fw, ver, Val(start), Val(end),
                               check_vxworks_endian(fw, ver, Val(start)), old_table)
    ELSE [is_big_endian |-> old_big, symbol_table |-> old_table]

\* prepare(): find_symbol_table (result f), then get_symbol_table unless
\* _has_symbol is False
prepare_after(fw, ver, f, old_big, old_table) ==
    f @@ (IF f.has_symbol = Some(FALSE)
          THEN [is_big_endian |-> old_big, symbol_table |-> old_table]
          ELSE get_symbol_table(fw, ver, f.symbol_table_start, f.symbol_table_end,
                                old_big, old_table))

prepare(fw, ver, old_start, old_end, old_has, old_info_has, old_big, old_table) ==
    prepare_after(fw, ver,
        find_symbol_table(fw, ver, old_start, old_end, old_has, old_info_has),
        old_big, old_table)

(***************************************************************************)
(* Byte searches used by the string helpers.  Each returns -1 when no      *)
(* offset of the range qualifies.                                          *)
(***************************************************************************)
\* smallest offset in lo..hi holding a zero / a nonzero byte
FirstZero(fw, lo, hi) ==
    IF \E z \in lo..hi : At(fw, z) = 0
    THEN CHOOSE z \in lo..hi : At(fw, z) = 0 /\ \A y \in lo..(z - 1) : At(fw, y) # 0
    ELSE -1

FirstNonZero(fw, lo, hi) ==
    IF \E z \in lo..hi : At(fw, z) # 0
    THEN CHOOSE z \in lo..hi : At(fw, z) # 0 /\ \A y \in lo..(z - 1) : At(fw, y) = 0
    ELSE -1

\* greatest offset in lo..hi holding a zero / a nonzero byte
LastZero(fw, lo, hi) ==
    IF \E d \in 0..(hi - lo) : At(fw, hi - d) = 0
    THEN hi - (CHOOSE d \in 0..(hi - lo) :
                  At(fw, hi - d) = 0 /\ \A c \in 0..(d - 1) : At(fw, hi - c) # 0)
    ELSE -1

LastNonZero(fw, lo, hi) ==
    IF \E d \in 0..(hi - lo) : At(fw, hi - d) # 0
    THEN hi - (CHOOSE d \in 0..(hi - lo) :
                  At(fw, hi - d) # 0 /\ \A c \in 0..(d - 1) : At(fw, hi - c) = 0)
    ELSE -1

\* _is_printable on a byte
is_printable(c) == 32 <= c /\ c <= 126

\* greatest offset in lo..hi holding a printable byte
LastPrintable(fw, lo, hi) ==
    IF \E d \in 0..(hi - lo) : is_printable(At(fw, hi - d))
    THEN hi - (CHOOSE d \in 0..(hi - lo) :
                  /\ is_printable(At(fw, hi - d))
                  /\ \A c \in 0..(d - 1) : ~is_printable(At(fw, hi - c)))
    ELSE -1

\* _is_func_name on the byte run fw[a:b]
is_func_name(fw, a, b) ==
    /\ ~(b - a > max_func_name_length)
    /\ \A o \in a..(b - 1) : At(fw, o) \notin bad_str
    /\ \A o \in a..(b - 1) : is_printable(At(fw, o))

\* pat occurs in fw at offset o
MatchAt(fw, pat, o) ==
    /\ o + Len(pat) <= Len(fw)
    /\ \A k \in 1..Len(pat) : fw[o + k] = pat[k]

\* pat in fw
Contains(fw, pat) == \E o \in 0..(Len(fw) - Len(pat)) : MatchAt(fw, pat, o)

\* fw.index(pat), defined when Contains(fw, pat)
Index(fw, pat) ==
    CHOOSE o \in 0..(Len(fw) - Len(pat)) :
        MatchAt(fw, pat, o) /\ \A y \in 0..(o - 1) : ~MatchAt(fw, pat, y)

(***************************************************************************)
(* _get_prev_string_data(offset): the nonzero run that ends at the last    *)
(* nonzero byte at or before offset (offset 0 itself is never examined).   *)
(* found = FALSE is the (None, None, None) result.                         *)
(***************************************************************************)
get_prev_string_data(fw, offset) ==
    LET e == IF offset > 0 THEN LastNonZero(fw, 1, offset) ELSE -1
        z == IF e > 0 THEN LastZero(fw, 0, e - 1) ELSE -1
    IN  IF e = -1 THEN [found |-> FALSE, start_address |-> -1, end_address |-> -1]
        ELSE [found |-> TRUE,
              \* no NUL below e: the inner loop runs out and start stays at e
              start_address |-> IF z = -1 THEN e ELSE z + 1,
              end_address |-> e + 1]

(***************************************************************************)
(* _get_next_string_data(offset), offset >= 0.  exc = "IndexError" when    *)
(* the run reaches the end of the image: the inner loop then reads         *)
(* self._firmware[len].                                                    *)
(***************************************************************************)
get_next_string_data(fw, offset) ==
    LET N == Len(fw)
        s == IF offset < N THEN FirstNonZero(fw, offset, N - 1) ELSE -1
        e == IF s # -1 /\ s + 1 <= N - 1 THEN FirstZero(fw, s + 1, N - 1) ELSE -1
    IN  IF s = -1
        THEN [exc |-> "None", found |-> FALSE, start_address |-> -1, end_address |-> -1]
        ELSE IF e = -1
        THEN [exc |-> "IndexError", found |-> FALSE, start_address |-> s, end_address |-> s]
        ELSE [exc |-> "None", found |-> TRUE, start_address |-> s, end_address |-> e]

\* the greatest index of self._firmware that _get_next_string_data(offset)
\* reads, 0 <= offset < len: the outer loop reads up to the first nonzero byte
\* (the last byte when there is none), the inner loop on to the next NUL, and
\* it reads index len when the image ends first
get_next_string_data_last_read(fw, offset) ==
    LET N == Len(fw)
        s == FirstNonZero(fw, offset, N - 1)
        e == IF s # -1 /\ s + 1 <= N - 1 THEN FirstZero(fw, s + 1, N - 1) ELSE -1
    IN  IF s = -1 THEN N - 1
        ELSE IF e = -1 THEN N
        ELSE e

\* count of find_string_table_by_key_function_index and _check_load_address
check_count(table) ==
    IF Len(table) > default_check_count THEN default_check_count ELSE Len(table)

(***************************************************************************)
(* Left growth: the first while loop of                                    *)
(* find_string_table_by_key_function_index.  temp is temp_str_tab_data, a  *)
(* sequence of <<start_address, end_address>> (the string is the image     *)
(* slice between them).  The loop state is [kind, start_offset, temp];     *)
(* kinds:                                                                  *)
(*   "loop"      at the loop test                                          *)
(*   "done"      the loop ended (condition false or break)                 *)
(*   "abort"     return None, None                                         *)
(*   "TypeError" the debug line formats prev_start_address = None with     *)
(*               {:010x}                                                   *)
(* left_growth_round runs the loop from its test through the iterations    *)
(* that only step start_offset down to the next printable byte, and the    *)
(* one iteration that handles the string ending there.                     *)
(***************************************************************************)
left_growth_string(fw, count, st, cur, prev) ==
    IF ~is_func_name(fw, cur.start_address, cur.end_address)
    THEN [st EXCEPT !.kind = IF Len(st.temp) < count THEN "abort" ELSE "done"]
    ELSE IF ~prev.found
    THEN [st EXCEPT !.kind = "TypeError",
                    !.temp = Append(st.temp, <<cur.start_address, cur.end_address>>)]
    ELSE IF max_string_interval < cur.start_address - prev.end_address
    THEN [st EXCEPT !.kind = IF Len(st.temp) + 1 < count THEN "abort" ELSE "done",
                    !.temp = Append(st.temp, <<cur.start_address, cur.end_address>>)]
    ELSE [st EXCEPT !.start_offset = cur.start_address - 1,
                    !.temp = Append(st.temp, <<cur.start_address, cur.end_address>>)]

left_growth_at(fw, count, st, cur) ==
    left_growth_string(fw, count, st, cur, get_prev_string_data(fw, cur.start_address - 1))

left_growth_round(fw, count, st) ==
    IF st.kind # "loop" THEN st
    ELSE IF st.start_offset <= 0 \/ LastPrintable(fw, 1, st.start_offset) = -1
    THEN [st EXCEPT !.kind = "done"]
    ELSE left_growth_at(fw, count, st,
             get_prev_string_data(fw, LastPrintable(fw, 1, st.start_offset)))

\* the loop run to its end from start_offset = key_offset, temp = []; every
\* round lowers start_offset, so key_offset rounds are enough
left_growth(fw, count, key_offset) ==
    Iterate(LAMBDA st : left_growth_round(fw, count, st),
            [kind |-> "loop", start_offset |-> key_offset, temp |-> <<>>],
            key_offset + 1)

\* faulty variant of right_growth_iteration: a string that is no function
\* name ends the discovery when fewer than count entries are collected, as
\* in left growth
right_growth_iteration_name_aborts(fw, count, end_offset, temp) ==
    IF ~is_printable(At(fw, end_offset))
    THEN [kind |-> "loop", end_offset |-> end_offset + 1, temp |-> temp]
    ELSE
    LET cur == get_next_string_data(fw, end_offset)
    IN  IF cur.exc # "None" THEN [kind |-> cur.exc, end_offset |-> end_offset, temp |-> temp]
        ELSE IF ~is_func_name(fw, cur.start_address, cur.end_address)
        THEN IF Len(temp) < count
             THEN [kind |-> "abort", end_offset |-> end_offset, temp |-> temp]
             ELSE [kind |-> "break", end_offset |-> end_offset, temp |-> temp]
        ELSE
        LET temp2 == Append(temp, <<cur.start_address, cur.end_address>>)
            next == get_next_string_data(fw, cur.end_address)
        IN  IF next.exc # "None"
            THEN [kind |-> next.exc, end_offset |-> end_offset, temp |-> temp2]
            ELSE IF next.found
            THEN IF max_string_interval < next.start_address - cur.end_address
                 THEN IF Len(temp2) < count
                      THEN [kind |-> "abort", end_offset |-> end_offset, temp |-> temp2]
                      ELSE [kind |-> "break", end_offset |-> end_offset, temp |-> temp2]
                 ELSE [kind |-> "loop", end_offset |-> cur.end_address, temp |-> temp2]
            ELSE [kind |-> "loop", end_offset |-> end_offset, temp |-> temp2]

(***************************************************************************)
(* One iteration of the second while loop (right growth), entered with     *)
(* end_offset < len(fw).  Result kinds:                                    *)
(*   "loop"       back to the loop test with the new end_offset and temp   *)
(*   "break"      break                                                    *)
(*   "abort"      return None, None                                        *)
(*   "IndexError" a _get_next_string_data call ran off the image           *)
(***************************************************************************)
right_growth_iteration(fw, count, end_offset, temp) ==
    IF ~is_printable(At(fw, end_offset))
    THEN [kind |-> "loop", end_offset |-> end_offset + 1, temp |-> temp]
    ELSE
    LET cur == get_next_string_data(fw, end_offset)
    IN  IF cur.exc # "None" THEN [kind |-> cur.exc, end_offset |-> end_offset, temp |-> temp]
        ELSE IF ~is_func_name(fw, cur.start_address, cur.end_address)
        THEN IF Len(temp) < count
             THEN [kind |-> "loop", end_offset |-> cur.end_address, temp |-> <<>>]
             ELSE [kind |-> "break", end_offset |-> end_offset, temp |-> temp]
        ELSE
        LET temp2 == Append(temp, <<cur.start_address, cur.end_address>>)
            next == get_next_string_data(fw, cur.end_address)
        IN  IF next.exc # "None"
            THEN [kind |-> next.exc, end_offset |-> end_offset, temp |-> temp2]
            ELSE IF next.found
            THEN IF max_string_interval < next.start_address - cur.end_address
                 THEN IF Len(temp2) < count
                      THEN [kind |-> "abort", end_offset |-> end_offset, temp |-> temp2]
                      ELSE [kind |-> "break", end_offset |-> end_offset, temp |-> temp2]
                 ELSE [kind |-> "loop", end_offset |-> cur.end_address, temp |-> temp2]
            \* no string follows: end_offset is left where it was
            ELSE [kind |-> "loop", end_offset |-> end_offset, temp |-> temp2]

\* the tail of find_string_table_by_key_function_index: sort by start address
\* and return (temp[0][1], temp[-1][2]); IndexError on an empty list
string_table_bounds(temp) ==
    IF temp = <<>> THEN [exc |-> "IndexError", start |-> -1, end |-> -1]
    ELSE LET lo == Min({temp[k][1] : k \in 1..Len(temp)})
             hi == Max({temp[k][1] : k \in 1..Len(temp)})
             \* sorted() is stable: the last of the entries with the greatest start
             last == Max({k \in 1..Len(temp) : temp[k][1] = hi})
         IN  [exc |-> "None", start |-> lo, end |-> temp[last][2]]

(***************************************************************************)
(* get_string_table(str_start_address, str_end_address): split the window  *)
(* on runs of NULs.  An entry is [address, length]; length counts the      *)
(* string and the NULs that follow it.  The loop state is                  *)
(* [exc, offset, address, table]; exc is "loop" at the test of the outer   *)
(* loop, "None" when the loop has ended and "IndexError" when a loop read  *)
(* self._firmware[len].  string_table_round runs from the test of the      *)
(* outer loop to the next entry.                                           *)
(***************************************************************************)
string_table_entry(fw, str_end_address, st, z, nz) ==
    IF z = -1
    THEN \* the outer loop steps over nonzero bytes up to str_end_address
         [st EXCEPT !.exc = IF st.offset <= str_end_address /\ str_end_address > Len(fw) - 1
                            THEN "IndexError" ELSE "None"]
    ELSE IF nz = -1
    THEN \* the inner loop reads the bytes z + 1 .. str_end_address + 1
         [st EXCEPT !.exc = IF str_end_address + 1 > Len(fw) - 1
                            THEN "IndexError" ELSE "None"]
    ELSE [st EXCEPT !.offset = nz, !.address = nz,
                    !.table = Append(st.table, [address |-> st.address,
                                                length |-> nz - st.address])]

string_table_nul(fw, str_end_address, st, z) ==
    string_table_entry(fw, str_end_address, st, z,
        IF z # -1 /\ z + 1 <= Min({str_end_address + 1, Len(fw) - 1})
        THEN FirstNonZero(fw, z + 1, Min({str_end_address + 1, Len(fw) - 1}))
        ELSE -1)

string_table_round(fw, str_end_address, st) ==
    IF st.exc # "loop" THEN st
    ELSE string_table_nul(fw, str_end_address, st,
             IF st.offset <= Min({str_end_address, Len(fw) - 1})
             THEN FirstZero(fw, st.offset, Min({str_end_address, Len(fw) - 1}))
             ELSE -1)

\* every round but the last moves offset up, so the window length bounds them
get_string_table(fw, str_start_address, str_end_address) ==
    Iterate(LAMBDA st : string_table_round(fw, str_end_address, st),
            [exc |-> "loop", offset |-> str_start_address,
             address |-> str_start_address, table |-> <<>>],
            str_end_address - str_start_address + 2)

(***************************************************************************)
(* _check_fix(func_index, str_index), indices 0-based as in the source.    *)
(* The loop state is [res, func_index, str_index, fault_count, step]; res  *)
(* is "loop" while the for loop runs, else what the call returned: "True", *)
(* "False", "None" (the loop ran out: an empty table), or "TypeError"      *)
(* (symbol_name_length of the last entry is None and None < int raises).   *)
(***************************************************************************)
check_fix_count(table) ==
    IF Len(table) <= default_check_count THEN Len(table) ELSE default_check_count

check_fix_iteration(table, strtab, st) ==
    IF st.res # "loop" THEN st
    ELSE IF st.step >= check_fix_count(table) THEN [st EXCEPT !.res = "None"]
    ELSE IF st.func_index >= Len(table) \/ st.str_index >= Len(strtab)
    THEN [st EXCEPT !.res = "False"]
    ELSE IF st.step = check_fix_count(table) - 1
    THEN [st EXCEPT !.res = IF st.fault_count < max_fault_count THEN "True" ELSE "False"]
    ELSE IF table[st.func_index + 1].symbol_name_length
                = Some(WInt(strtab[st.str_index + 1].length))
    THEN [st EXCEPT !.func_index = @ + 1, !.str_index = @ + 1, !.step = @ + 1]
    ELSE IF table[st.func_index + 1].symbol_name_length = None
    THEN [st EXCEPT !.res = "TypeError"]
    ELSE IF WLt(Val(table[st.func_index + 1].symbol_name_length),
                WInt(strtab[st.str_index + 1].length))
    THEN [st EXCEPT !.fault_count = @ + 1, !.func_index = @ + 1, !.step = @ + 1]
    ELSE [st EXCEPT !.res = "False"]

check_fix(table, strtab, func_index, str_index) ==
    Iterate(LAMBDA st : check_fix_iteration(table, strtab, st),
            [res |-> "loop", func_index |-> func_index, str_index |-> str_index,
             fault_count |-> 0, step |-> 0],
            check_fix_count(table) + 1).res

(***************************************************************************)
(* The matching scan of find_loading_address: str_index outer, func_index  *)
(* inner, both ascending; the first pair with equal length and hint whose  *)
(* _check_fix does not return False decides.  kind is "found" (with the    *)
(* pair), "TypeError", or "none" when the loops run out.                   *)
(***************************************************************************)
pair_result(table, strtab, func_index, str_index) ==
    IF table[func_index + 1].symbol_name_length = Some(WInt(strtab[str_index + 1].length))
    THEN check_fix(table, strtab, func_index, str_index)
    ELSE "False"

\* the inner loop stops at some func_index for this str_index
row_stops(table, strtab, str_index) ==
    \E j \in 0..(Len(table) - 1) : pair_result(table, strtab, j, str_index) \in {"True", "TypeError"}

\* the func_index at which it stops
row_stop(table, strtab, str_index) ==
    CHOOSE j \in 0..(Len(table) - 1) :
        /\ pair_result(table, strtab, j, str_index) \in {"True", "TypeError"}
        /\ \A k \in 0..(j - 1) : pair_result(table, strtab, k, str_index) \notin {"True", "TypeError"}

matching_stop(table, strtab, str_index, func_index) ==
    [kind |-> IF pair_result(table, strtab, func_index, str_index) = "True"
              THEN "found" ELSE "TypeError",
     str_index |-> str_index, func_index |-> func_index]

matching_scan(table, strtab) ==
    IF \E i \in 0..(Len(strtab) - 1) : row_stops(table, strtab, i)
    THEN Only({matching_stop(table, strtab, i, row_stop(table, strtab, i)) :
                 i \in {CHOOSE i \in 0..(Len(strtab) - 1) :
                           /\ row_stops(table, strtab, i)
                           /\ \A k \in 0..(i - 1) : ~row_stops(table, strtab, k)}})
    ELSE [kind |-> "none", str_index |-> -1, func_index |-> -1]

\* the load address a pair yields
pair_load_address(table, strtab, func_index, str_index) ==
    WSub(table[func_index + 1].symbol_name_addr, WInt(strtab[str_index + 1].address))

(***************************************************************************)
(* _check_load_address(address): "True", "False" or "IndexError" (from     *)
(* _get_next_string_data).  name_check is the body of the loop for entry   *)
(* i (0-based): "ok" when the loop goes on.                                *)
(***************************************************************************)
name_check_at(fw, offset, str) ==
    IF ~WLt(WInt(0), offset) THEN "False"
    ELSE IF str.exc # "None" THEN str.exc
    ELSE IF ~str.found \/ str.start_address # WVal(offset) THEN "False"
    ELSE "ok"

name_check(fw, table, address, i) ==
    name_check_at(fw, WSub(table[i + 1].symbol_name_addr, address),
        \* an offset at or past the end of the image finds no string
        IF WIn(WSub(table[i + 1].symbol_name_addr, address), 1, Len(fw) - 1)
        THEN get_next_string_data(fw, WVal(WSub(table[i + 1].symbol_name_addr, address)))
        ELSE [exc |-> "None", found |-> FALSE, start_address |-> -1, end_address |-> -1])

check_load_address(fw, has_symbol, table, address) ==
    IF has_symbol # Some(TRUE) THEN "False"
    ELSE IF \A i \in 0..(check_count(table) - 1) : name_check(fw, table, address, i) = "ok"
    THEN "True"
    ELSE name_check(fw, table, address,
             CHOOSE i \in 0..(check_count(table) - 1) :
                 /\ name_check(fw, table, address, i) # "ok"
                 /\ \A k \in 0..(i - 1) : name_check(fw, table, address, k) = "ok")

\* quick_test's loop over known_address from index k (1-based): the first
\* address that checks, none, or the exception of a check
RECURSIVE quick_test_from(_, _, _, _)
quick_test_from(fw, has_symbol, table, k) ==
    IF k > Len(known_address) THEN [exc |-> "None", load_address |-> None]
    ELSE LET r == check_load_address(fw, has_symbol, table, known_address[k])
         IN  IF r = "True" THEN [exc |-> "None", load_address |-> Some(known_address[k])]
             ELSE IF r = "False" THEN quick_test_from(fw, has_symbol, table, k + 1)
             ELSE [exc |-> r, load_address |-> None]

(***************************************************************************)
(* get_string_from_firmware_by_offset(string_offset): the bytes from the   *)
(* offset to the next NUL.  Python indexing: an offset in [-len, 0) reads  *)
(* from the end of the image and runs on into offset 0; an offset outside  *)
(* [-len, len) raises IndexError, as does a run that reaches the end.      *)
(***************************************************************************)
get_string_from_firmware_by_offset(fw, wide_offset) ==
    LET N == Len(fw)
        in_range == WIn(wide_offset, 0 - N, N - 1)
        string_offset == IF in_range THEN WVal(wide_offset) ELSE N
        run(o) == LET z == IF o <= N - 1 THEN FirstZero(fw, o, N - 1) ELSE -1
                  IN  IF z = -1 THEN [exc |-> "IndexError", name |-> <<>>]
                      ELSE [exc |-> "None", name |-> Slice(fw, o, z)]
    IN  IF ~in_range
        THEN [exc |-> "IndexError", name |-> <<>>]
        ELSE IF string_offset >= 0 THEN run(string_offset)
        ELSE LET o == N + string_offset
                 z == FirstZero(fw, o, N - 1)
                 rest == run(0)
             IN  IF z # -1 THEN [exc |-> "None", name |-> Slice(fw, o, z)]
                 ELSE [exc |-> rest.exc, name |-> Slice(fw, o, N) \o rest.name]

(***************************************************************************)
(* get_symbols(): None when load_address is None or 0; else one entry per  *)
(* entry of self._symbol_table, in the order of that list.  exc is the     *)
(* exception of the first name that cannot be read; symbols then holds the *)
(* entries appended before it.                                             *)
(***************************************************************************)
reify(fw, load_address, symbol) ==
    [symbol_name      |-> get_string_from_firmware_by_offset(
                              fw, WSub(symbol.symbol_name_addr, load_address)).name,
     symbol_name_addr |-> symbol.symbol_name_addr,
     symbol_dest_addr |-> symbol.symbol_dest_addr,
     symbol_flag      |-> symbol.symbol_flag]

get_symbols(fw, load_address, table) ==
    IF ~TruthyAddress(load_address) THEN [exc |-> "None", result |-> None, symbols |-> <<>>]
    ELSE LET L == Val(load_address)
             bad == {k \in 1..Len(table) :
                        get_string_from_firmware_by_offset(
                            fw, WSub(table[k].symbol_name_addr, L)).exc # "None"}
             good == IF bad = {} THEN Len(table) ELSE Min(bad) - 1
             list == AsSeq([k \in 1..good |-> reify(fw, L, table[k])])
         IN  IF bad = {} THEN [exc |-> "None", result |-> Some(list), symbols |-> list]
             ELSE [exc |-> "IndexError", result |-> None, symbols |-> list]

(***************************************************************************)
(* The head of find_loading_address.                                       *)
(***************************************************************************)
\* faulty variant of has_no_symbol: tests for None
has_no_symbol_unset(has_symbol) == has_symbol = None

\* `self._has_symbol is False`, the first test of find_loading_address and of
\* quick_test
has_no_symbol(has_symbol) == has_symbol = Some(FALSE)

\* b'\x00' + key_word + b'\x00' and b'\x00_' + key_word + b'\x00'
KeyPattern(key_word) == <<0>> \o key_word \o <<0>>
PrefixPattern(key_word) == <<0, 95>> \o key_word \o <<0>>

\* `self._firmware is False`: the image is a bytes object, never False
firmware_is_False == FALSE

\* the test of the keyword loop: Python chains `x in fw is False` into
\* (x in fw) and (fw is False)
keyword_reported_missing(fw, key_word) ==
    /\ Contains(fw, KeyPattern(key_word)) /\ firmware_is_False
    /\ Contains(fw, PrefixPattern(key_word)) /\ firmware_is_False

\* some key word of the list passes the test: the loop returns None
keyword_loop_returns(fw) ==
    \E k \in 1..Len(function_name_key_words) :
        keyword_reported_missing(fw, function_name_key_words[k])

\* key_function_index: index of the plain pattern of the first key word, in
\* the except branch index of its prefixed pattern; ValueError leaves the call
\* when that is absent too
key_function_index(fw) ==
    IF Contains(fw, KeyPattern(function_name_key_words[1]))
    THEN [exc |-> "None", index |-> Index(fw, KeyPattern(function_name_key_words[1]))]
    ELSE IF Contains(fw, PrefixPattern(function_name_key_words[1]))
    THEN [exc |-> "None", index |-> Index(fw, PrefixPattern(function_name_key_words[1]))]
    ELSE [exc |-> "ValueError", index |-> -1]

(***************************************************************************)
(* The rest of find_loading_address once the growth loops are over with    *)
(* temp: window bounds, get_string_table, the matching scan.               *)
(*   exc           "None", or the exception that leaves the call           *)
(*   string_table  self._string_table afterwards                           *)
(*   matching      the matching scan was entered                           *)
(*   load_address  Some(address) when a pair matched, else None            *)
(***************************************************************************)
locate_with_scan(table, strtab, scan) ==
    [exc          |-> IF scan.kind = "TypeError" THEN "TypeError" ELSE "None",
     string_table |-> strtab,
     matching     |-> TRUE,
     load_address |-> IF scan.kind = "found"
                      THEN Some(pair_load_address(table, strtab, scan.func_index,
                                                  scan.str_index))
                      ELSE None]

locate_with_table(table, st) ==
    IF st.exc # "None"
    THEN [exc |-> st.exc, string_table |-> <<>>, matching |-> FALSE, load_address |-> None]
    ELSE locate_with_scan(table, st.table, matching_scan(table, st.table))

locate_with_bounds(fw, table, old_strtab, b) ==
    IF b.exc # "None"
    THEN [exc |-> b.exc, string_table |-> old_strtab, matching |-> FALSE,
          load_address |-> None]
    ELSE locate_with_table(table, get_string_table(fw, b.start, b.end))

locate_after_growth(fw, table, old_strtab, temp) ==
    locate_with_bounds(fw, table, old_strtab, string_table_bounds(temp))

(***************************************************************************)
(* Input images.  An image is built from a parameter record:               *)
(*   ver, big      VxWorks version and byte order of the pointers          *)
(*   poolFirst     name pool before (TRUE) or after (FALSE) the table      *)
(*   head          a '%' string and four NULs in front of a leading pool   *)
(*   pre           number of 0x01 bytes in front of the table              *)
(*   prevalid      a valid record with another name pointer column right   *)
(*                 before the first record                                 *)
(*   n, m          records in the table, names in the pool (n <= m)        *)
(*   corrupt       index of a record whose type byte is 0x02, or -1        *)
(*   anchor, aidx  spelling of the name at pool index aidx                 *)
(*   uniform       every other name has three letters (else 2, 3, 4, ..)   *)
(*   bad           pool index of a name spelled with '%' signs, or -1      *)
(*   gap           pool index of a name with four NULs in front of it      *)
(*                 instead of one, or -1                                   *)
(*   rev           records list the names in descending address order      *)
(*   dup           the second record repeats the name pointer of the first *)
(*   far           the record of the last name points past the image       *)
(*   base          link base of the name pointers (a wide integer)         *)
(*   tail          bytes after the last section                            *)
(***************************************************************************)
Rep(b, k) == AsSeq([i \in 1..k |-> b])

AnchorBytes(a) ==
    CASE a = "bzero"   -> <<98, 122, 101, 114, 111>>
      [] a = "_bzero"  -> <<95, 98, 122, 101, 114, 111>>
      [] a = "usrInit" -> <<117, 115, 114, 73, 110, 105, 116>>
      [] OTHER         -> <<97, 97>>

NameBytes(P, p) ==
    IF p = P.aidx THEN AnchorBytes(P.anchor)
    ELSE Rep(IF p = P.bad THEN 37 ELSE 97, IF P.uniform THEN 3 ELSE 2 + (p % 3))

NameLen(P, p) ==
    IF p = P.aidx THEN Len(AnchorBytes(P.anchor))
    ELSE IF P.uniform THEN 3 ELSE 2 + (p % 3)

\* offset of name p relative to the start of the pool: one NUL in front of
\* every name (four in front of the name at gap); the lengths 2, 3, 4 repeat,
\* but for the name at aidx
PoolRel(P, p) ==
    LET plain == IF P.uniform THEN 3 * p
                 ELSE 2 * p + 3 * (p \div 3) + (IF p % 3 = 2 THEN 1 ELSE 0)
        fix == IF P.aidx < p
               THEN Len(AnchorBytes(P.anchor))
                        - (IF P.uniform THEN 3 ELSE 2 + (P.aidx % 3))
               ELSE 0
        wide == IF P.gap >= 0 /\ p >= P.gap THEN 3 ELSE 0
    IN  1 + p + plain + fix + wide

\* byte i (0-based) of the pool: the NULs in front of each name, the names,
\* and a closing NUL
PoolByte(P, i) ==
    IF i < PoolRel(P, 0) THEN 0
    ELSE LET p == CHOOSE q \in 0..(P.m - 1) : PoolRel(P, q) <= i /\ i < PoolRel(P, q + 1)
             k == i - PoolRel(P, p) + 1
         IN  IF k > NameLen(P, p) THEN 0 ELSE NameBytes(P, p)[k]

PoolBytes(P) == AsSeq([i \in 1..PoolRel(P, P.m) |-> PoolByte(P, i - 1)])

TailBytes(t) ==
    CASE t = "junk" -> <<0, 0, 0, 0, 37, 0, 0>>
      [] t = "nul"  -> <<0, 0, 0>>
      [] t = "cut"  -> <<0, 122, 122>>
      [] t = "np"   -> <<1, 0>>
      [] OTHER      -> <<>>

HeadBytes(P) == IF P.poolFirst /\ P.head THEN <<37, 0, 0, 0, 0>> ELSE <<>>

PreLen(P) == P.pre + (IF P.prevalid THEN symbol_interval(P.ver) ELSE 0)

\* the pool with its closing NUL
PoolLen(P) == PoolRel(P, P.m)

TableOff(P) == IF P.poolFirst THEN Len(HeadBytes(P)) + PoolLen(P) + 4 + PreLen(P) ELSE PreLen(P)

PoolOff(P) ==
    IF P.poolFirst THEN Len(HeadBytes(P)) ELSE PreLen(P) + P.n * symbol_interval(P.ver) + 4

TotalLen(P) ==
    Len(HeadBytes(P)) + PoolLen(P) + 4 + PreLen(P) + P.n * symbol_interval(P.ver)
        + Len(TailBytes(P.tail))

\* the four bytes of the wide integer v
Pack32(v, big) ==
    LET le == <<v[2] % 256, v[2] \div 256, v[1] % 256, v[1] \div 256>>
    IN  IF big THEN <<le[4], le[3], le[2], le[1]>> ELSE le

RecordBytes(P, name_ptr, value, type) ==
    LET W == symbol_interval(P.ver)
    IN  <<0, 0, 0, 0>> \o Pack32(name_ptr, P.big) \o Pack32(value, P.big)
            \o Rep(0, W - 14) \o <<type, 0>>

\* the bytes of a sequence of W-byte records
Flatten(recs, W) ==
    AsSeq([i \in 1..(Len(recs) * W) |-> recs[((i - 1) \div W) + 1][((i - 1) % W) + 1]])

TableRecord(P, far_ptr, pool_off, r) ==
    LET p == IF P.dup /\ r = 1 THEN 0 ELSE IF P.rev THEN P.n - 1 - r ELSE r
        ptr == IF P.far /\ p = P.n - 1 THEN far_ptr
               ELSE WAddInt(P.base, pool_off + PoolRel(P, p))
    IN  RecordBytes(P, ptr, WInt(16843009 + r), IF r = P.corrupt THEN 2 ELSE 5)

TableRecords(P, far_ptr, pool_off) ==
    AsSeq([k \in 1..P.n |-> TableRecord(P, far_ptr, pool_off, k - 1)])

TableBytes(P) ==
    Flatten(TableRecords(P, WAddInt(P.base, TotalLen(P) + 16), PoolOff(P)),
            symbol_interval(P.ver))

PreBytes(P) ==
    Rep(1, P.pre)
        \o (IF P.prevalid THEN RecordBytes(P, WInt(2139062143), WInt(16843009), 5) ELSE <<>>)

Image(P) ==
    IF P.poolFirst
    THEN HeadBytes(P) \o PoolBytes(P) \o Rep(0, 4) \o PreBytes(P) \o TableBytes(P)
             \o TailBytes(P.tail)
    ELSE PreBytes(P) \o TableBytes(P) \o Rep(0, 4) \o PoolBytes(P) \o TailBytes(P.tail)

\* the parameter record of the plain image: V5, little endian, pool first,
\* one record more than the window needs
Default ==
    [ver |-> 5, big |-> FALSE, poolFirst |-> TRUE, head |-> FALSE, pre |-> 0,
     prevalid |-> FALSE, n |-> default_check_count + 1, m |-> default_check_count + 2,
     corrupt |-> -1, anchor |-> "bzero", aidx |-> 0, uniform |-> FALSE, bad |-> -1,
     gap |-> -1, rev |-> FALSE,
     dup |-> FALSE, far |-> FALSE, base |-> <<1, 0>>, tail |-> "junk"]

\* bound on the records a table has beyond the default_check_count of the window
MaxExtra == 2

\* well-formed images: both versions, both byte orders, pool before or after
\* the table (the anchor then has default_check_count names in front of it),
\* a known link base and one that is a known base plus one
PlainInputs ==
    { [Default EXCEPT !.ver = v, !.big = b, !.n = default_check_count + x,
                      !.m = default_check_count + x + 1]
        : v \in {5, 6}, b \in BOOLEAN, x \in 1..MaxExtra }
    \cup { [Default EXCEPT !.ver = v, !.poolFirst = FALSE, !.pre = 24,
                           !.aidx = default_check_count + 1, !.tail = t]
             : v \in {5, 6}, t \in {"junk", "np"} }
    \cup { [Default EXCEPT !.base = <<32768, 8192>>, !.big = TRUE],
           [Default EXCEPT !.base = <<1, 1>>],
           [Default EXCEPT !.head = TRUE, !.aidx = 50],
           [Default EXCEPT !.rev = TRUE],
           [Default EXCEPT !.uniform = TRUE, !.n = default_check_count + 3,
                           !.m = default_check_count + 4] }

\* images that deviate in the table: a valid record in front of it, a record
\* with an unknown type byte in it, fewer records than the window needs, a
\* table at offset 0, a name pointer past the image, a name with two records
TableInputs ==
    { [Default EXCEPT !.ver = v, !.prevalid = TRUE] : v \in {5, 6} }
    \cup { [Default EXCEPT !.ver = v, !.corrupt = k, !.n = default_check_count + 3,
                           !.m = default_check_count + 3]
             : v \in {5, 6}, k \in {1, 5, default_check_count, default_check_count + 1} }
    \cup { [Default EXCEPT !.n = default_check_count - 1],
           [Default EXCEPT !.poolFirst = FALSE, !.aidx = default_check_count],
           [Default EXCEPT !.far = TRUE] }
    \cup { [Default EXCEPT !.ver = v, !.dup = TRUE] : v \in {5, 6} }

\* images that deviate in the pool: another anchor spelling or none, a
\* trailing pool that runs to the end of the image, and four NULs between two
\* names to the right or to the left of the anchor, a name that is no
\* function name to the right or to the left of the anchor
PoolInputs ==
    { [Default EXCEPT !.anchor = a] : a \in {"_bzero", "usrInit", "none"} }
    \cup { [Default EXCEPT !.poolFirst = FALSE, !.pre = 8, !.aidx = default_check_count,
                           !.tail = t] : t \in {"nul", "cut", "none"} }
    \cup { [Default EXCEPT !.aidx = 50] }
    \cup { [Default EXCEPT !.gap = 50],
           [Default EXCEPT !.poolFirst = FALSE, !.pre = 24,
                           !.aidx = default_check_count + 1, !.gap = 50] }
    \cup { [Default EXCEPT !.bad = 10],
           [Default EXCEPT !.bad = 2, !.n = default_check_count + 3,
                           !.m = default_check_count + 4],
           [Default EXCEPT !.poolFirst = FALSE, !.pre = 24,
                           !.aidx = default_check_count + 1, !.bad = 50] }

Inputs == PlainInputs \cup TableInputs \cup PoolInputs

(***************************************************************************)
(* State: the fields of a VxTarget, the position of the driver, and the    *)
(* locals of a find_string_table_by_key_function_index in progress.        *)
(***************************************************************************)
VARIABLES
    input,               \* parameters the image was built from (not a field)
    firmware,            \* self._firmware
    vx_version,          \* self._vx_version
    is_big_endian,       \* self.is_big_endian
    symbol_table_start,  \* self.symbol_table_start
    symbol_table_end,    \* self.symbol_table_end
    string_table,        \* self._string_table
    symbol_table,        \* self._symbol_table
    symbols,             \* self.symbols
    load_address,        \* self.load_address
    has_symbol,          \* self._has_symbol
    firmware_info,       \* self._firmware_info
    pc,                  \* "init", "idle", "right_growth", "reported", "raised"
    result,              \* the last call: [call, exc, value]
    stages,              \* the calls made and the stages of the analysis entered
    temp_str_tab_data,   \* local of the pool discovery in progress
    end_offset           \* local of the pool discovery in progress

vars == <<input, firmware, vx_version, is_big_endian, symbol_table_start,
          symbol_table_end, string_table, symbol_table, symbols, load_address,
          has_symbol, firmware_info, pc, result, stages, temp_str_tab_data, end_offset>>

\* __init__ up to the call of prepare(): every field at its constructor value
Init ==
    /\ input \in Inputs
    /\ firmware = Image(input)
    /\ vx_version = input.ver
    /\ is_big_endian = FALSE
    /\ symbol_table_start = None
    /\ symbol_table_end = None
    /\ string_table = <<>>
    /\ symbol_table = <<>>
    /\ symbols = <<>>
    /\ load_address = None
    /\ has_symbol = None
    /\ firmware_info = [load_address |-> WInt(-1), has_symbol |-> FALSE,
                        vx_version |-> input.ver, big_endian |-> FALSE,
                        symbol_table_start |-> None, symbol_table_end |-> None,
                        symbols |-> None]
    /\ pc = "init"
    /\ result = [call |-> "__init__", exc |-> "None", value |-> None]
    /\ stages = {}
    /\ temp_str_tab_data = <<>>
    /\ end_offset = 0

\* the prepare() call that ends __init__
Prepare ==
    /\ pc = "init"
    /\ \E r \in {prepare(firmware, vx_version, symbol_table_start, symbol_table_end,
                         has_symbol, firmware_info.has_symbol, is_big_endian, symbol_table)} :
           /\ symbol_table_start' = r.symbol_table_start
           /\ symbol_table_end' = r.symbol_table_end
           /\ has_symbol' = r.has_symbol
           /\ firmware_info' = [firmware_info EXCEPT !.has_symbol = r.info_has_symbol]
           /\ is_big_endian' = r.is_big_endian
           /\ symbol_table' = r.symbol_table
    /\ pc' = "idle"
    /\ result' = [call |-> "prepare", exc |-> "None", value |-> None]
    /\ UNCHANGED <<input, firmware, vx_version, string_table, symbols, load_address,
                   stages, temp_str_tab_data, end_offset>>

\* bound on len(temp_str_tab_data) in the growth loop
MaxTemp == 112

\* an uncaught exception leaves the call, and the driver with it
Raise(call, exc) ==
    /\ pc' = "raised"
    /\ result' = [call |-> call, exc |-> exc, value |-> None]
    /\ temp_str_tab_data' = <<>>
    /\ end_offset' = 0

\* the call returns value to the driver
Return(call, value) ==
    /\ pc' = "idle"
    /\ result' = [call |-> call, exc |-> "None", value |-> value]
    /\ temp_str_tab_data' = <<>>
    /\ end_offset' = 0

\* find_string_table_by_key_function_index returned (None, None): the caller
\* passes them to get_string_table, which clears self._string_table and then
\* compares None <= None
AbortedDiscovery ==
    /\ string_table' = <<>>
    /\ Raise("find_loading_address", "TypeError")
    /\ UNCHANGED <<load_address, firmware_info>>

\* find_loading_address from the end of the growth loops to its return
FinishLocate(temp) ==
    \E r \in {locate_after_growth(firmware, symbol_table, string_table, temp)} :
        /\ string_table' = r.string_table
        /\ stages' = stages \cup (IF r.matching THEN {"matching"} ELSE {})
        /\ IF r.exc # "None"
           THEN /\ Raise("find_loading_address", r.exc)
                /\ UNCHANGED <<load_address, firmware_info>>
           ELSE IF r.load_address # None
           THEN /\ load_address' = r.load_address
                /\ firmware_info' = [firmware_info EXCEPT !.load_address = Val(r.load_address)]
                /\ Return("find_loading_address", r.load_address)
           ELSE /\ Return("find_loading_address", None)
                /\ UNCHANGED <<load_address, firmware_info>>

\* find_loading_address, called by the driver while load_address is None,
\* up to the end of left growth
FindLoadingAddress ==
    /\ pc = "idle"
    /\ load_address = None
    /\ result.call \in {"prepare", "quick_test"}
    /\ UNCHANGED <<input, firmware, vx_version, is_big_endian, symbol_table_start,
                   symbol_table_end, symbol_table, symbols, has_symbol>>
    /\ IF has_no_symbol(has_symbol) \/ keyword_loop_returns(firmware)
       THEN /\ Return("find_loading_address", None)
            /\ stages' = stages \cup {"find_loading_address"}
            /\ UNCHANGED <<string_table, load_address, firmware_info>>
       ELSE \E key \in {key_function_index(firmware)} :
            IF key.exc # "None"
            THEN /\ Raise("find_loading_address", key.exc)
                 /\ stages' = stages \cup {"find_loading_address", "anchor_scan"}
                 /\ UNCHANGED <<string_table, load_address, firmware_info>>
            ELSE \E lg \in {left_growth(firmware, check_count(symbol_table), key.index)} :
                 /\ stages' = stages \cup {"find_loading_address", "anchor_scan",
                                            "pool_discovery"}
                 /\ IF lg.kind = "TypeError"
                    THEN /\ Raise("find_loading_address", "TypeError")
                         /\ UNCHANGED <<string_table, load_address, firmware_info>>
                    ELSE IF lg.kind = "abort"
                    THEN AbortedDiscovery
                    ELSE /\ pc' = "right_growth"
                         /\ result' = [call |-> "find_loading_address", exc |-> "None",
                                       value |-> None]
                         /\ temp_str_tab_data' = lg.temp
                         /\ end_offset' = key.index
                         /\ UNCHANGED <<string_table, load_address, firmware_info>>

\* one iteration of the right growth loop; a break runs on to the return of
\* find_loading_address
RightGrowthIteration ==
    /\ pc = "right_growth"
    /\ end_offset < Len(firmware)
    /\ Len(temp_str_tab_data) < MaxTemp
    /\ UNCHANGED <<input, firmware, vx_version, is_big_endian, symbol_table_start,
                   symbol_table_end, symbol_table, symbols, has_symbol>>
    /\ \E it \in {right_growth_iteration(firmware, check_count(symbol_table), end_offset,
                                         temp_str_tab_data)} :
        CASE it.kind = "loop" ->
                /\ end_offset' = it.end_offset
                /\ temp_str_tab_data' = it.temp
                /\ UNCHANGED <<string_table, load_address, firmware_info, pc, result, stages>>
          [] it.kind = "break" -> FinishLocate(it.temp)
          [] it.kind = "abort" -> AbortedDiscovery /\ UNCHANGED stages
          [] OTHER ->
                /\ Raise("find_loading_address", it.kind)
                /\ UNCHANGED <<string_table, load_address, firmware_info, stages>>

\* the right growth loop ends because end_offset reached the end of the image
RightGrowthExit ==
    /\ pc = "right_growth"
    /\ ~(end_offset < Len(firmware))
    /\ UNCHANGED <<input, firmware, vx_version, is_big_endian, symbol_table_start,
                   symbol_table_end, symbol_table, symbols, has_symbol>>
    /\ FinishLocate(temp_str_tab_data)

\* quick_test, which the driver may call right after construction
QuickTest ==
    /\ pc = "idle"
    /\ result.call = "prepare"
    /\ UNCHANGED <<input, firmware, vx_version, is_big_endian, symbol_table_start,
                   symbol_table_end, string_table, symbol_table, symbols, has_symbol>>
    /\ IF has_no_symbol(has_symbol)
       THEN /\ Return("quick_test", None)
            /\ stages' = stages \cup {"quick_test"}
            /\ UNCHANGED <<load_address, firmware_info>>
       ELSE \E r \in {quick_test_from(firmware, has_symbol, symbol_table, 1)} :
            /\ stages' = stages \cup {"quick_test", "probe"}
            /\ IF r.exc # "None"
               THEN /\ Raise("quick_test", r.exc)
                    /\ UNCHANGED <<load_address, firmware_info>>
               ELSE IF r.load_address # None
               THEN /\ load_address' = r.load_address
                    /\ firmware_info' = [firmware_info EXCEPT
                                            !.load_address = Val(r.load_address)]
                    /\ Return("quick_test", r.load_address)
               ELSE /\ Return("quick_test", None)
                    /\ UNCHANGED <<load_address, firmware_info>>

\* get_firmware_info: get_symbols, then the report
GetFirmwareInfo ==
    /\ pc = "idle"
    /\ UNCHANGED <<input, firmware, vx_version, is_big_endian, symbol_table_start,
                   symbol_table_end, string_table, symbol_table, load_address, has_symbol,
                   stages, temp_str_tab_data, end_offset>>
    /\ \E r \in {get_symbols(firmware, load_address, symbol_table)} :
        /\ symbols' = r.symbols
        /\ IF r.exc # "None"
           THEN /\ pc' = "raised"
                /\ result' = [call |-> "get_firmware_info", exc |-> r.exc, value |-> None]
                /\ UNCHANGED firmware_info
           ELSE /\ pc' = "reported"
                /\ firmware_info' = [firmware_info EXCEPT !.symbols = r.result]
                /\ result' = [call |-> "get_firmware_info", exc |-> "None",
                              value |-> Some([firmware_info EXCEPT !.symbols = r.result])]

Next ==
    \/ Prepare
    \/ QuickTest
    \/ FindLoadingAddress
    \/ RightGrowthIteration
    \/ RightGrowthExit
    \/ GetFirmwareInfo

Spec == Init /\ [][Next]_vars

(***************************************************************************)
(* _check_symbol_format_simple on its own: one record of the declared      *)
(* version, its fields drawn from small sets of byte patterns.             *)
(***************************************************************************)
\* type bytes: admissible for both versions, for one only, for neither
RecordTypes == {0, 2, 5, 6, 9, 16, 18, 129}

\* byte patterns of a four-byte pointer field
RecordPointers == {<<0, 0, 0, 0>>, <<0, 0, 0, 1>>, <<1, 0, 0, 0>>, <<0, 128, 0, 0>>}

RecordInputs ==
    [ver : {5, 6}, type : RecordTypes, pad : {0, 1},
     group : {<<0, 0>>, <<0, 1>>, <<1, 0>>},
     name : RecordPointers, value : RecordPointers, filler : {0, 255}]

\* the bytes of the record: the fields at their places, filler in the bytes
\* the validator does not look at
RecordData(P) ==
    Rep(P.filler, 4) \o P.name \o P.value
        \o (IF P.ver = 6 THEN Rep(P.filler, 4) ELSE <<>>)
        \o P.group \o <<P.type, P.pad>>

\* a VxTarget of the record's version and the record as the data at hand
InitRecord ==
    /\ input \in RecordInputs
    /\ firmware = RecordData(input)
    /\ vx_version = input.ver
    /\ is_big_endian = FALSE
    /\ symbol_table_start = None
    /\ symbol_table_end = None
    /\ string_table = <<>>
    /\ symbol_table = <<>>
    /\ symbols = <<>>
    /\ load_address = None
    /\ has_symbol = None
    /\ firmware_info = [load_address |-> WInt(-1), has_symbol |-> FALSE,
                        vx_version |-> input.ver, big_endian |-> FALSE,
                        symbol_table_start |-> None, symbol_table_end |-> None,
                        symbols |-> None]
    /\ pc = "record"
    /\ result = [call |-> "__init__", exc |-> "None", value |-> None]
    /\ stages = {}
    /\ temp_str_tab_data = <<>>
    /\ end_offset = 0

\* self._check_symbol_format_simple(data)
CheckSymbolFormatSimple ==
    /\ pc = "record"
    /\ pc' = "record_checked"
    /\ result' = [call |-> "_check_symbol_format_simple", exc |-> "None",
                  value |-> Some(check_symbol_format_simple(firmware, vx_version, 0))]
    /\ UNCHANGED <<input, firmware, vx_version, is_big_endian, symbol_table_start,
                   symbol_table_end, string_table, symbol_table, symbols, load_address,
                   has_symbol, firmware_info, stages, temp_str_tab_data, end_offset>>

NextRecord == CheckSymbolFormatSimple

SpecRecord == InitRecord /\ [][NextRecord]_vars

(***************************************************************************)
(* Properties.                                                             *)
(***************************************************************************)
\* get_firmware_info has returned the report of an analysis that found the
\* table and the load address
Succeeded ==
    /\ pc = "reported"
    /\ has_symbol = Some(TRUE)
    /\ symbol_table_start # None /\ symbol_table_end # None
    /\ load_address # None

\* C1: on a successful analysis every field of the report returned by
\* get_firmware_info holds the discovered value: the table bounds S and E,
\* the detected byte order, the load address L and the reified symbol list
C1_ReportPopulated ==
    Succeeded =>
        /\ Val(result.value).symbol_table_start = symbol_table_start
        /\ Val(result.value).symbol_table_end = symbol_table_end
        /\ Val(result.value).big_endian = is_big_endian
        /\ Val(result.value).load_address = Val(load_address)
        /\ Val(result.value).symbols = Some(symbols)

\* prepare() has reported a table
TableReported == pc # "init" /\ has_symbol = Some(TRUE)

\* the records of [S, E) pass the validator and the record at E, when it is
\* inside the image, fails it
table_is_maximal_run(fw, ver, S, E) ==
    /\ \A k \in 0..(((E - S) \div symbol_interval(ver)) - 1) :
           check_symbol_format_simple(fw, ver, S + k * symbol_interval(ver))
    /\ E + symbol_interval(ver) <= Len(fw) => ~check_symbol_format_simple(fw, ver, E)

\* C2 as stated: every record of a reported table [S, E) passes the
\* validator, and the records at S - W and at E, when inside the image, fail
\* it, for V5 and V6
C2_RecordBeforeStartInvalid ==
    TableReported =>
        /\ table_is_maximal_run(firmware, vx_version, Val(symbol_table_start),
                                Val(symbol_table_end))
        /\ Val(symbol_table_start) - symbol_interval(vx_version) >= 0 =>
               ~check_symbol_format_simple(firmware, vx_version,
                    Val(symbol_table_start) - symbol_interval(vx_version))

\* C2 amended: every record of a reported table [S, E) passes the validator
\* and the record at E, when inside the image, fails it; the record at S - W,
\* when inside the image, fails it for V6, and for V5 it fails it or the
\* window of default_check_count records that starts there fails the window
\* check of _check_symbol_format
C2_TableBounds ==
    TableReported =>
        /\ table_is_maximal_run(firmware, vx_version, Val(symbol_table_start),
                                Val(symbol_table_end))
        /\ Val(symbol_table_start) - symbol_interval(vx_version) >= 0 =>
               \/ ~check_symbol_format_simple(firmware, vx_version,
                      Val(symbol_table_start) - symbol_interval(vx_version))
               \/ /\ vx_version = 5
                  /\ ~check_symbol_format(firmware, vx_version,
                         Val(symbol_table_start) - symbol_interval(vx_version))

\* a V6 table with a complete record in front of it and one behind it
C2_Witness ==
    /\ TableReported
    /\ pc = "idle" /\ result.call = "prepare"
    /\ vx_version = 6
    /\ Val(symbol_table_start) - symbol_interval(vx_version) >= 0
    /\ Val(symbol_table_end) + symbol_interval(vx_version) <= Len(firmware)
    /\ Val(symbol_table_end) - Val(symbol_table_start) >=
           default_check_count * symbol_interval(vx_version)

\* the image the corrupted one was made from, and the table prepare() finds
\* in it
known_good(P) == [P EXCEPT !.corrupt = -1]

good_table(P) == find_symbol_table(Image(known_good(P)), P.ver, None, None, None, FALSE)

\* prepare() has run on an image with an inadmissible type byte at an
\* interior record of the table of the known-good image
CorruptedPrepared ==
    /\ pc = "idle" /\ result.call = "prepare"
    /\ 0 < input.corrupt /\ input.corrupt < input.n - 1

\* C3 as stated: an inadmissible type byte at any interior record of the
\* table of a known-good image makes E the offset of that record
C3_TruncatedAtAnyRecord ==
    CorruptedPrepared =>
        symbol_table_end = Some(Val(good_table(input).symbol_table_start)
                                    + input.corrupt * symbol_interval(vx_version))

\* C3 amended: an inadmissible type byte at an interior record that has at
\* least default_check_count records of the table in front of it leaves S
\* where it was and makes E the offset of that record
C3_TruncatedBehindWindow ==
    (CorruptedPrepared /\ input.corrupt >= default_check_count) =>
        /\ symbol_table_start = good_table(input).symbol_table_start
        /\ symbol_table_end = Some(Val(good_table(input).symbol_table_start)
                                       + input.corrupt * symbol_interval(vx_version))

\* a table cut short at the corrupted record
C3_Witness ==
    /\ CorruptedPrepared
    /\ input.corrupt >= default_check_count
    /\ has_symbol = Some(TRUE)
    /\ good_table(input).has_symbol = Some(TRUE)
    /\ Val(symbol_table_end) = TableOff(input) + input.corrupt * symbol_interval(vx_version)
    /\ Val(symbol_table_end) < Val(good_table(input).symbol_table_end)

\* find_loading_address has ended, by a return or by an exception
FindLoadingAddressEnded == result.call = "find_loading_address" /\ pc \in {"idle", "raised"}

\* the NUL-delimited name key_word occurs in the image, plain or with '_'
keyword_present(fw, key_word) ==
    Contains(fw, KeyPattern(key_word)) \/ Contains(fw, PrefixPattern(key_word))

\* C4: when the table is intact and no key word of the list occurs in the
\* image in either form, find_loading_address returns a failure without a
\* load address; it does not end with an uncaught exception
C4_MissingAnchorReturned ==
    (/\ FindLoadingAddressEnded
     /\ has_symbol = Some(TRUE)
     /\ \A k \in 1..Len(function_name_key_words) :
            ~keyword_present(firmware, function_name_key_words[k]))
        => (pc = "idle" /\ result.exc = "None" /\ result.value = None /\ load_address = None)

\* C5: when bzero is absent in both forms and usrInit is present, pool
\* discovery is seeded at usrInit and find_loading_address goes on to return
\* the load address
C5_FallsBackToUsrInit ==
    (/\ FindLoadingAddressEnded
     /\ has_symbol = Some(TRUE)
     /\ ~keyword_present(firmware, function_name_key_words[1])
     /\ Contains(firmware, KeyPattern(function_name_key_words[2])))
        => /\ pc = "idle" /\ result.exc = "None" /\ load_address # None
           /\ \E k \in 1..Len(string_table) :
                  string_table[k].address
                      = Index(firmware, KeyPattern(function_name_key_words[2])) + 1

\* the name of table entry k can be read at name pointer - load_address: the
\* offset is inside the image and a NUL follows
name_readable(fw, L, table, k) ==
    /\ WIn(WSub(table[k].symbol_name_addr, L), 0, Len(fw) - 1)
    /\ get_string_from_firmware_by_offset(fw, WSub(table[k].symbol_name_addr, L)).exc = "None"

\* C6: get_symbols skips a record whose name offset is outside the image or
\* starts no NUL-terminated run: it still returns a list, which holds the
\* other records
C6_UnreadableRecordSkipped ==
    (result.call = "get_firmware_info" /\ TruthyAddress(load_address)) =>
        /\ pc = "reported"
        /\ firmware_info.symbols # None
        /\ \A k \in 1..Len(symbol_table) :
               name_readable(firmware, Val(load_address), symbol_table, k) =>
                   \E e \in 1..Len(symbols) :
                       /\ symbols[e].symbol_name_addr = symbol_table[k].symbol_name_addr
                       /\ symbols[e].symbol_dest_addr = symbol_table[k].symbol_dest_addr

\* get_symbols has returned one entry per record
SymbolsListed ==
    /\ pc = "reported"
    /\ firmware_info.symbols = Some(symbols)
    /\ Len(symbols) = Len(symbol_table)
    /\ Len(symbols) > 1

\* offset of the record that entry e of the list was read from
record_offset(e) ==
    symbol_table[e].offset

\* C7 as stated: the list of get_symbols is in the order of the records in
\* the image, ascending record offset
C7_RecordOrder ==
    SymbolsListed =>
        \A e \in 1..(Len(symbols) - 1) : record_offset(e) < record_offset(e + 1)

\* C7 amended: the list of get_symbols is in ascending order of name pointer
\* (the order of self._symbol_table after its sort), which need not be the
\* order of the records
C7_NamePointerOrder ==
    SymbolsListed =>
        \A e \in 1..(Len(symbols) - 1) :
            /\ symbols[e].symbol_name_addr = symbol_table[e].symbol_name_addr
            /\ symbols[e + 1].symbol_name_addr = symbol_table[e + 1].symbol_name_addr
            /\ ~WLt(symbols[e + 1].symbol_name_addr, symbols[e].symbol_name_addr)

\* a list whose record order is not its name pointer order
C7_Witness ==
    /\ SymbolsListed
    /\ input.rev
    /\ \E e \in 1..(Len(symbols) - 1) : record_offset(e) > record_offset(e + 1)
    /\ WLt(symbols[1].symbol_name_addr, symbols[Len(symbols)].symbol_name_addr)

\* C8: the pipeline terminates; right growth does not repeat an iteration at
\* the same position: every iteration that stays in the loop moves
\* end_offset forward, also when only NULs follow the last accepted string
C8_RightGrowthAdvances ==
    [][(pc = "right_growth" /\ pc' = "right_growth") => end_offset' > end_offset]_vars

\* the stages behind the first test of find_loading_address and quick_test
LaterStages == {"anchor_scan", "pool_discovery", "matching", "probe"}

\* C9: for an image without a symbol table the analysis ends with no table
\* and no load address, and neither the anchor scan, pool discovery, the
\* matching scan nor a probe of a known base is ever started
C9_NoSymbolTableStopsAnalysis ==
    (pc # "init" /\ has_symbol = Some(FALSE)) =>
        /\ stages \cap LaterStages = {}
        /\ load_address = None
        /\ result.call \in {"find_loading_address", "quick_test"} =>
               (pc = "idle" /\ result.exc = "None" /\ result.value = None)

\* an image with the anchor and no table, after quick_test and
\* find_loading_address have both returned
C9_Witness ==
    /\ has_symbol = Some(FALSE)
    /\ keyword_present(firmware, function_name_key_words[1])
    /\ {"quick_test", "find_loading_address"} \subseteq stages
    /\ pc = "idle" /\ result.call = "find_loading_address"

\* find_loading_address has returned from its matching scan
MatchingDone ==
    /\ pc = "idle" /\ result.call = "find_loading_address"
    /\ "matching" \in stages

\* the pairs <<str_index, func_index>> of equal length and hint that pass
\* _check_fix
successful_pairs(table, strtab) ==
    {q \in (0..(Len(strtab) - 1)) \X (0..(Len(table) - 1)) :
        pair_result(table, strtab, q[2], q[1]) = "True"}

\* all the pairs of the set yield one load address
same_load_address(table, strtab, pairs) ==
    \A q \in pairs : \A r \in pairs :
        pair_load_address(table, strtab, q[2], q[1])
            = pair_load_address(table, strtab, r[2], r[1])

diagonal_step(pairs, q) == q \in pairs /\ <<q[1] + 1, q[2] + 1>> \in pairs

\* every two successful pairs that are neighbours on a diagonal yield one
\* load address
diagonal_same_load_address(table, strtab, pairs) ==
    \A q \in pairs :
        diagonal_step(pairs, q) =>
            pair_load_address(table, strtab, q[2], q[1])
                = pair_load_address(table, strtab, q[2] + 1, q[1] + 1)

AdmissibleTypes(ver) ==
    IF ver = 5 THEN {3, 4, 5, 6, 7, 8, 9, 18, 19, 64, 65, 128, 129}
    ELSE {3, 4, 5, 8, 9, 16, 17, 32, 33, 64, 65}

\* the bytes of R at the record-relative offsets lo .. hi - 1 are all zero
all_zero(R, lo, hi) == \A k \in lo..(hi - 1) : R[k + 1] = 0

\* structural validity of the record R of width W, as the claim words it
structurally_valid(R, ver) ==
    LET W == Len(R)
    IN  /\ R[(IF ver = 5 THEN 14 ELSE 18) + 1] \in AdmissibleTypes(ver)
        /\ R[(W - 1) + 1] = 0
        /\ all_zero(R, W - 4, W - 2)
        /\ ~all_zero(R, 4, 8)
        /\ ver = 5 => ~all_zero(R, 8, 12)

\* C11: the validator accepts a record exactly when its type byte is
\* admissible for the version, its last byte is zero, its group bytes are
\* zero, its name pointer bytes are not all zero and, for version 5 only, its
\* value bytes are not all zero; a version 6 record with an all-zero value
\* and an admissible type is accepted
C11_ValidatorAccepts ==
    pc = "record_checked" =>
        /\ result.value = Some(structurally_valid(firmware, vx_version))
        /\ (/\ vx_version = 6
            /\ all_zero(firmware, 8, 12)
            /\ structurally_valid([firmware EXCEPT ![9] = 1], 6))
               => result.value = Some(TRUE)

\* a version 6 record of type 0x09 with a zero value, accepted
C11_Witness ==
    /\ pc = "record_checked"
    /\ vx_version = 6
    /\ input.type = 9 /\ input.value = <<0, 0, 0, 0>>
    /\ result.value = Some(TRUE)

\* the two bytes at the record-relative offset col agree in the first two
\* records of the table at start
first_records_agree(fw, ver, start, col) ==
    /\ At(fw, start + col) = At(fw, start + symbol_interval(ver) + col)
    /\ At(fw, start + col + 1) = At(fw, start + symbol_interval(ver) + col + 1)

\* get_symbol_table has run the endianness probe on the table
Probed ==
    /\ pc # "init"
    /\ has_symbol = Some(TRUE)
    /\ Truthy(symbol_table_start) /\ Truthy(symbol_table_end)

\* C12: a tie of the endianness probe is resolved to little endian: when the
\* name pointers of the compared records agree on bytes [4, 6) and on bytes
\* [6, 8), and when they agree on neither, is_big_endian is false
C12_TieIsLittleEndian ==
    (/\ Probed
     /\ first_records_agree(firmware, vx_version, Val(symbol_table_start), 4)
            = first_records_agree(firmware, vx_version, Val(symbol_table_start), 6))
        => is_big_endian = FALSE

\* find_loading_address has ended, by a return or by an exception, after it
\* entered its matching scan
MatchingEnded ==
    /\ FindLoadingAddressEnded
    /\ "matching" \in stages

\* <<i, j>> comes first in the order of the scan: pool index i outer, table
\* index j inner
scan_before(q, r) == q[1] < r[1] \/ (q[1] = r[1] /\ q[2] < r[2])

\* the first pair of the set in the order of the scan
lowest_pair(pairs) == CHOOSE q \in pairs : \A r \in pairs \ {q} : scan_before(q, r)

\* C13: the matching scan returns table[j].name_ptr - pool[i].offset for the
\* lowest pair (i, j), i over the pool and j over the sorted table, that has
\* equal length and hint and passes the fixup check, and it reports no load
\* address when no pair does
C13_LowestPairDecides ==
    MatchingEnded =>
        /\ pc = "idle" /\ result.exc = "None"
        /\ result.value = load_address
        /\ IF successful_pairs(symbol_table, string_table) = {}
           THEN load_address = None
           ELSE load_address
                    = Some(pair_load_address(symbol_table, string_table,
                               lowest_pair(successful_pairs(symbol_table, string_table))[2],
                               lowest_pair(successful_pairs(symbol_table, string_table))[1]))

\* the pairs <<str_index, func_index>> of equal length and hint: the starting
\* pairs the matching scan hands to _check_fix
starting_pairs(table, strtab) ==
    {q \in (0..(Len(strtab) - 1)) \X (0..(Len(table) - 1)) :
        table[q[2] + 1].symbol_name_length = Some(WInt(strtab[q[1] + 1].length))}

\* C14: for every starting pair the fixup check returns a boolean and does
\* not raise, also when its walk reaches the last record of the sorted table,
\* whose length hint is undefined
C14_CheckFixReturnsBoolean ==
    MatchingEnded =>
        \A q \in starting_pairs(symbol_table, string_table) :
            check_fix(symbol_table, string_table, q[2], q[1]) \in {"True", "False"}

\* quick_test has returned a base
ProbeAccepted ==
    /\ pc = "idle" /\ result.call = "quick_test"
    /\ result.value # None

\* name pointer - A of table entry i (0-based) is greater than 0, inside the
\* image, and the exact start of a string: the byte in front of it is NUL
exact_string_start(fw, table, A, i) ==
    /\ WIn(WSub(table[i + 1].symbol_name_addr, A), 1, Len(fw) - 1)
    /\ At(fw, WVal(WSub(table[i + 1].symbol_name_addr, A)) - 1) = 0

\* every one of the first min(default_check_count, |table|) name pointers is
\* an exact string start under the base A
base_acceptable(fw, table, A) ==
    \A i \in 0..(check_count(table) - 1) : exact_string_start(fw, table, A, i)

\* C15: quick_test accepts a known base only if each of the first
\* min(100, |table|) name pointers, taken relative to it, is greater than 0
\* and the exact start of a NUL-terminated string (the byte in front of it
\* is NUL); it returns the first base of the list that is acceptable
C15_ProbeAcceptsStringStarts ==
    ProbeAccepted =>
        /\ load_address = result.value
        /\ \E k \in 1..Len(known_address) :
               /\ result.value = Some(known_address[k])
               /\ base_acceptable(firmware, symbol_table, known_address[k])
               /\ \A e \in 1..(k - 1) :
                      ~base_acceptable(firmware, symbol_table, known_address[e])

\* find_loading_address has returned with the string pool rebuilt
PoolBuilt ==
    /\ pc = "idle" /\ result.call = "find_loading_address"
    /\ string_table # <<>>

\* number of NUL bytes right in front of offset a
nuls_before(fw, a) == a - 1 - LastNonZero(fw, 0, a - 1)

\* C16: in the string pool produced by pool discovery any two consecutive
\* entries are separated by at most three NUL bytes: growth takes a
\* neighbouring string only across a gap of at most three bytes, and four
\* NULs end it
C16_PoolGapAtMostThree ==
    PoolBuilt =>
        \A k \in 2..Len(string_table) :
            nuls_before(firmware, string_table[k].address) <= 3

\* right growth is at a printable byte: the string that starts at end_offset
\* runs to string_end, the next NUL (-1 when the image ends first)
AtString ==
    /\ pc = "right_growth"
    /\ end_offset < Len(firmware)
    /\ Len(temp_str_tab_data) < MaxTemp
    /\ is_printable(At(firmware, end_offset))

string_end ==
    IF end_offset + 1 <= Len(firmware) - 1
    THEN FirstZero(firmware, end_offset + 1, Len(firmware) - 1)
    ELSE -1

\* the string at end_offset is no function name and fewer than count entries
\* are collected
NameFailsEarly ==
    /\ AtString
    /\ string_end # -1
    /\ ~is_func_name(firmware, end_offset, string_end)
    /\ Len(temp_str_tab_data) < check_count(symbol_table)

\* the string at end_offset is a function name, the string after it ends
\* inside the image and lies more than bound bytes behind it, and with this
\* name fewer than count entries are collected
GapFailsEarly(bound) ==
    /\ AtString
    /\ string_end # -1
    /\ is_func_name(firmware, end_offset, string_end)
    /\ get_next_string_data(firmware, string_end).found
    /\ get_next_string_data(firmware, string_end).start_address - string_end > bound
    /\ Len(temp_str_tab_data) + 1 < check_count(symbol_table)

\* the accumulator is reset and growth goes on behind the string
ResetAndContinue ==
    /\ pc' = "right_growth"
    /\ temp_str_tab_data' = <<>>
    /\ end_offset' = string_end

\* C17 as stated: before count entries are collected both a string that is
\* no function name and a gap beyond the bound reset the accumulator and let
\* right growth continue; neither aborts the discovery
C17_EveryFailureResets ==
    [][(NameFailsEarly \/ GapFailsEarly(max_string_interval)) => ResetAndContinue]_vars

\* C17 amended: before count entries are collected a string that is no
\* function name resets the accumulator and lets right growth continue behind
\* it, while a gap of more than four bytes to the next string ends the
\* discovery: growth stops, no pool is produced and no load address is set
C17_NameFailureResets ==
    [][/\ NameFailsEarly => ResetAndContinue
       /\ GapFailsEarly(max_string_interval) =>
              /\ pc' # "right_growth"
              /\ result'.call = "find_loading_address" /\ result'.value = None
              /\ string_table' = <<>>
              /\ load_address' = None
              /\ "matching" \notin stages']_vars

\* a discovery that was reset at a '%' name and later ended at a gap,
\* before count entries were collected
C17_Witness ==
    /\ input.bad = 10 /\ input.aidx = 0
    /\ pc = "raised" /\ result.call = "find_loading_address"
    /\ "pool_discovery" \in stages /\ "matching" \notin stages
    /\ string_table = <<>> /\ load_address = None

\* find_loading_address has ended on an image with a table and the anchor,
\* and left growth rejected a string with fewer than count entries accepted
LeftGrowthAborted ==
    /\ FindLoadingAddressEnded
    /\ has_symbol = Some(TRUE)
    /\ key_function_index(firmware).exc = "None"
    /\ left_growth(firmware, check_count(symbol_table),
                   key_function_index(firmware).index).kind = "abort"

\* C18: when left growth rejects a string while fewer than count entries
\* are accepted, find_loading_address returns a failure with load_address
\* still unset; it runs neither the pool rebuild nor the matching scan and
\* does not end with an exception
C18_LeftAbortReturnsFailure ==
    LeftGrowthAborted =>
        /\ pc = "idle" /\ result.exc = "None" /\ result.value = None
        /\ load_address = None
        /\ "matching" \notin stages

\* C19: every byte access is at an index in [0, N): the next-string lookups
\* of right growth read no index >= N, also when the image ends in the middle
\* of a string with no terminating NUL, and the probe of the known bases does
\* not end with the IndexError of a read outside the image
C19_ReadsInsideImage ==
    /\ AtString =>
           /\ get_next_string_data_last_read(firmware, end_offset) < Len(firmware)
           /\ (string_end # -1 /\ is_func_name(firmware, end_offset, string_end)) =>
                  get_next_string_data_last_read(firmware, string_end) < Len(firmware)
    /\ result.call = "quick_test" => result.exc # "IndexError"

\* some offset of the start scan passes the window test
window_offsets(fw, ver) ==
    {o \in 0..(Len(fw) - symbol_interval(ver)) :
        /\ o + symbol_interval(ver) * default_check_count <= Len(fw)
        /\ check_symbol_format_simple(fw, ver, o)
        /\ check_symbol_format(fw, ver, o)}

\* C20: if some offset passes the window test, find_symbol_table reports a
\* table that starts at the smallest such offset, with has_symbol true and
\* an end behind the start, also when that offset is 0
C20_FirstWindowIsReported ==
    (/\ pc = "idle" /\ result.call = "prepare"
     /\ window_offsets(firmware, vx_version) # {})
        => /\ has_symbol = Some(TRUE)
           /\ symbol_table_start = Some(Min(window_offsets(firmware, vx_version)))
           /\ symbol_table_end # None
           /\ Val(symbol_table_end) > Val(symbol_table_start)

====
